---- MODULE Spec2Model ----
(***************************************************************************)
(* League-Analyzer: utility.py / main.py.                                  *)
(*                                                                         *)
(* One run of create_summoner_to_id_table: build the ladder-listing URL,   *)
(* GET it, open the SQLite database and create the summonerID table,       *)
(* resolve every ladder entry through get_id_summoner (recursive retry on  *)
(* HTTP 429), then insert_into_table.  The URL builders are pure           *)
(* functions and are modelled as operators; SpecUrl applies them to        *)
(* enumerated arguments.                                                   *)
(***************************************************************************)
EXTENDS Integers, Sequences, FiniteSets, TLC

VARIABLES
    pc,               \* position of the process in create_summoner_to_id_table
    region,           \* argument region of the run
    tier,             \* argument tier of the run, a sequence of characters
    sent,             \* the last HTTP request issued: [url, key], or NoRequest
    httpRequests,     \* number of requests.get calls made
    lookupRequests,   \* number of requests.get calls made by get_id_summoner
    listing,          \* the response to the listing request, or NoResponse
    accounts_data,    \* response_dict["entries"]
    idx,              \* number of entries the for loop has finished
    frame,            \* arguments of the active get_id_summoner call
    depth,            \* number of nested get_id_summoner calls below the loop's
    wait_time,        \* wait_time of the active 429 branch
    waited,           \* total seconds spent in time.sleep
    n429,             \* number of 429 answers received by lookups
    response,         \* the last response a lookup received, or NoAnswer
    formatted_data,   \* the list of tuples built by the loop
    REQUESTS_COUNTER, \* the module global
    db,               \* the database file: [exists, rows] of table summonerID
    db0,              \* the database file as it was when the run started
    pending,          \* rows written by the open transaction, not yet committed
    connOpen,         \* number of sqlite3 connections currently open
    connOpens,        \* number of sqlite3 connections opened so far
    tableCreates,     \* number of CREATE TABLE statements executed
    rowInserts,       \* number of rows executemany has inserted
    error,            \* why the run stopped, NoError while it has not
    exitStatus,       \* exit status of the process, Running while it runs
    failedAt,         \* the pc at which the process stopped on an error
    call,             \* SpecUrl: the URL-builder call under evaluation
    ret               \* SpecUrl: its outcome, NoResult before it is evaluated

vars == << pc, region, tier, sent, httpRequests, lookupRequests, listing,
           accounts_data, idx, frame, depth, wait_time, waited, n429, response,
           formatted_data, REQUESTS_COUNTER, db, db0, pending, connOpen,
           connOpens, tableCreates, rowInserts, error, exitStatus, failedAt,
           call, ret >>

(***************************************************************************)
(* Bounds of the model.                                                    *)
(***************************************************************************)
MaxEntries == 3      \* longest `entries` list a listing response carries
MaxRetries == 2      \* most 429 answers the server gives during one run
\* Number of nested get_id_summoner calls the interpreter's call stack holds
\* (CPython raises RecursionError at sys.getrecursionlimit() frames, 1000
\* unless changed; scaled down so that a run of MaxRetries 429 answers
\* reaches it).
RecursionLimit == 2

(***************************************************************************)
(* Strings.  A Python str whose characters matter (tier, because of        *)
(* str.lower, and the Retry-After header, because of int) is a sequence of *)
(* one-character strings; Text turns it into a TLA+ string.                *)
(***************************************************************************)
RECURSIVE Text(_)
Text(chars) ==
    IF chars = << >> THEN "" ELSE Head(chars) \o Text(Tail(chars))

UpperToLower ==
    "A" :> "a" @@ "B" :> "b" @@ "C" :> "c" @@ "D" :> "d" @@ "E" :> "e" @@
    "F" :> "f" @@ "G" :> "g" @@ "H" :> "h" @@ "I" :> "i" @@ "J" :> "j" @@
    "K" :> "k" @@ "L" :> "l" @@ "M" :> "m" @@ "N" :> "n" @@ "O" :> "o" @@
    "P" :> "p" @@ "Q" :> "q" @@ "R" :> "r" @@ "S" :> "s" @@ "T" :> "t" @@
    "U" :> "u" @@ "V" :> "v" @@ "W" :> "w" @@ "X" :> "x" @@ "Y" :> "y" @@
    "Z" :> "z"

\* str.lower()
lower(chars) ==
    [i \in DOMAIN chars |->
        IF chars[i] \in DOMAIN UpperToLower THEN UpperToLower[chars[i]]
        ELSE chars[i]]

DigitValue ==
    "0" :> 0 @@ "1" :> 1 @@ "2" :> 2 @@ "3" :> 3 @@ "4" :> 4 @@
    "5" :> 5 @@ "6" :> 6 @@ "7" :> 7 @@ "8" :> 8 @@ "9" :> 9

\* int(s) for a str of decimal digits; ok = FALSE is ValueError
RECURSIVE DigitsValue(_)
DigitsValue(chars) ==
    IF chars = << >> THEN 0
    ELSE 10 * DigitsValue(SubSeq(chars, 1, Len(chars) - 1))
         + DigitValue[chars[Len(chars)]]

int(chars) ==
    IF chars # << >> /\ \A i \in DOMAIN chars : chars[i] \in DOMAIN DigitValue
    THEN [ok |-> TRUE, val |-> DigitsValue(chars)]
    ELSE [ok |-> FALSE, val |-> 0]

(***************************************************************************)
(* Outcomes of a call: a returned value or a raised exception.             *)
(***************************************************************************)
Return(v) == [ok |-> TRUE, val |-> v, err |-> ""]
Raise(e) == [ok |-> FALSE, val |-> "", err |-> e]

InvalidRegion == "The region is invalid"
InvalidDivision == "Division is invalid"
InvalidTier == "Tier is invalid"
TierDivisionConflict(t) == "You cannot have tier " \o t \o " with a division"

(***************************************************************************)
(* Global tables.                                                          *)
(***************************************************************************)
region_dict_without_VN ==
    "NA" :> "https://na1.api.riotgames.com" @@
    "EUW" :> "https://euw1.api.riotgames.com" @@
    "EUN" :> "https://eun1.api.riotgames.com" @@
    "BR" :> "https://br1.api.riotgames.com" @@
    "JP" :> "https://jp1.api.riotgames.com" @@
    "KR" :> "https://kr.api.riotgames.com" @@
    "LA" :> "https://la1.api.riotgames.com" @@
    "OC" :> "https://oc1.api.riotgames.com" @@
    "TR" :> "https://tr1.api.riotgames.com" @@
    "RU" :> "https://ru.api.riotgames.com" @@
    "PH" :> "https://ph2.api.riotgames.com" @@
    "SG" :> "https://sg2.api.riotgames.com" @@
    "TH" :> "https://th2.api.riotgames.com" @@
    "TW" :> "https://tw2.api.riotgames.com"

region_dict ==
    "NA" :> "https://na1.api.riotgames.com" @@
    "EUW" :> "https://euw1.api.riotgames.com" @@
    "EUN" :> "https://eun1.api.riotgames.com" @@
    "BR" :> "https://br1.api.riotgames.com" @@
    "JP" :> "https://jp1.api.riotgames.com" @@
    "KR" :> "https://kr.api.riotgames.com" @@
    "LA" :> "https://la1.api.riotgames.com" @@
    "OC" :> "https://oc1.api.riotgames.com" @@
    "TR" :> "https://tr1.api.riotgames.com" @@
    "RU" :> "https://ru.api.riotgames.com" @@
    "PH" :> "https://ph2.api.riotgames.com" @@
    "SG" :> "https://sg2.api.riotgames.com" @@
    "TH" :> "https://th2.api.riotgames.com" @@
    "TW" :> "https://tw2.api.riotgames.com" @@
    "VN" :> "https://vn2.api.riotgames.com"

\* division_dict that keeps the division code instead of its Roman numeral
division_dict_arabic ==
    "1" :> "1" @@ "2" :> "2" @@ "3" :> "3" @@ "4" :> "4" @@ "" :> ""

division_dict ==
    "1" :> "I" @@ "2" :> "II" @@ "3" :> "III" @@ "4" :> "IV" @@ "" :> ""

tier_set ==
    { "iron", "bronze", "silver", "gold", "platinum", "diamond",
      "master", "grandmaster", "challenger" }

(***************************************************************************)
(* URL builders.                                                           *)
(***************************************************************************)
region_to_url(r) ==
    IF r \in DOMAIN region_dict THEN Return(region_dict[r])
    ELSE Raise(InvalidRegion)

\* tier_to_url with the top-league test made before the division lookup
tier_to_url_conflict_first(t, division, page) ==
    LET tl == Text(lower(t))
        is_top_league ==
            tl = "master" \/ tl = "grandmaster" \/ tl = "challenger"
    IN  IF is_top_league /\ division # ""
        THEN Raise(TierDivisionConflict(tl))
        ELSE IF division \notin DOMAIN division_dict
        THEN Raise(InvalidDivision)
        ELSE IF tl \notin tier_set
        THEN Raise(InvalidTier)
        ELSE IF is_top_league
        THEN Return("/lol/league/v4/" \o tl \o "leagues/by-queue/RANKED_SOLO_5x5")
        ELSE Return("/lol/league/v4/entries/RANKED_SOLO_5x5/" \o tl \o "/"
                    \o division_dict[division] \o "?page=" \o page)

tier_to_url(t, division, page) ==
    LET tl == Text(lower(t))
        is_top_league ==
            tl = "master" \/ tl = "grandmaster" \/ tl = "challenger"
    IN  IF division \notin DOMAIN division_dict
        THEN Raise(InvalidDivision)
        ELSE IF tl \notin tier_set
        THEN Raise(InvalidTier)
        ELSE IF is_top_league /\ division_dict[division] # ""
        THEN Raise(TierDivisionConflict(tl))
        ELSE IF is_top_league
        THEN Return("/lol/league/v4/" \o tl \o "leagues/by-queue/RANKED_SOLO_5x5")
        ELSE Return("/lol/league/v4/entries/RANKED_SOLO_5x5/" \o tl \o "/"
                    \o division_dict[division] \o "?page=" \o page)

\* create_tier_url whose except branch prints and goes on instead of exiting
create_tier_url_no_exit(r, t) ==
    LET region_url == region_to_url(r)
        tier_url == tier_to_url(t, "", "1")
    IN  Return(region_url.val \o tier_url.val)

\* ok = FALSE is the except branch: print(v); exit()
create_tier_url(r, t) ==
    LET region_url == region_to_url(r)
        tier_url == tier_to_url(t, "", "1")
    IN  IF ~region_url.ok THEN region_url
        ELSE IF ~tier_url.ok THEN tier_url
        ELSE Return(region_url.val \o tier_url.val)

create_puuid_url(summonerId, r) ==
    LET region_url == region_to_url(r)
    IN  IF ~region_url.ok THEN region_url
        ELSE Return(region_url.val \o "/lol/summoner/v4/summoners/" \o summonerId)

(***************************************************************************)
(* The remote API and the inputs of a run.                                 *)
(***************************************************************************)
API_KEY == "RGAPI-key"

\* The ladder entries a listing response can carry
Ladder ==
    { [summonerId |-> "s1", summonerName |-> "Ann"],
      [summonerId |-> "s2", summonerName |-> "Bob"] }

\* The summoner endpoint's answer for each summonerId
Summoner ==
    "s1" :> [puuid |-> "p1", accountId |-> "a1"] @@
    "s2" :> [puuid |-> "p2", accountId |-> "a2"]

EntryLists ==
    UNION { [1..n -> Ladder] : n \in 0..MaxEntries }

\* The body the summoner endpoint serves at a URL
ServerBody(url) ==
    LET hits == { s \in DOMAIN Summoner :
                    \E r \in DOMAIN region_dict :
                        url = region_dict[r] \o "/lol/summoner/v4/summoners/" \o s }
    IN  IF hits = {} THEN [puuid |-> "", accountId |-> ""]
        ELSE Summoner[CHOOSE s \in hits : TRUE]

RunRegions == { "NA", "KR", "EU" }
RunTiers ==
    { << "M", "a", "s", "t", "e", "r" >>,
      << "g", "o", "l", "d" >>,
      << "w", "o", "o", "d" >> }

FatalStatuses == { 404, 503 }
RetryAfterHeaders == { << "0" >>, << "2" >>, << "1", "0" >>, << "s", "o", "o", "n" >> }

Row(puuid, summonerId, account_id, summonerName, r) ==
    << puuid, summonerId, account_id, summonerName, r >>

\* The database files a run can start with
Databases ==
    { [exists |-> FALSE, rows |-> << >>],
      [exists |-> TRUE, rows |-> << >>],
      [exists |-> TRUE, rows |-> << Row("p1", "s1", "a1", "Ann", "NA") >>] }

NoRequest == [url |-> "", key |-> ""]
NoResponse == [status |-> 0, hasEntries |-> FALSE, entries |-> << >>]
NoFrame == [summonerId |-> "", API_KEY |-> "", region |-> ""]
NoCall ==
    [fn |-> "", region |-> "", tier |-> << >>, division |-> "", page |-> "",
     summonerId |-> ""]
NoResult == [ok |-> FALSE, val |-> "", err |-> "not evaluated"]
NoError == ""
Running == << >>

\* exit() raises SystemExit(None): the interpreter ends with status 0
ExitCall == 0
\* an exception nobody catches ends the interpreter with status 1
UncaughtException == 1

NumColumns == 5

NoAnswer == [status |-> 0, retryAfter |-> << >>, hasHeader |-> FALSE, complete |-> FALSE]

(***************************************************************************)
(* Helpers of the run.                                                     *)
(***************************************************************************)
\* The process ends: pc, error and exitStatus
Stop(kind, status) ==
    /\ pc' = "failed"
    /\ error' = kind
    /\ exitStatus' = << status >>
    /\ failedAt' = pc

Request(url) == [url |-> url, key |-> API_KEY]

\* the for loop placed right after accounts_data, before any storage call
AfterListingResolve == "loop"

\* what follows accounts_data = response_dict["entries"]: create_connection
AfterListing == "connect"

\* get_id_summoner(summonerId, API_KEY, region) as the loop calls it
LoopCall(account, r) ==
    [summonerId |-> account.summonerId, API_KEY |-> API_KEY, region |-> r]

\* the recursive call that leaves region at its default
RetryCallDefaultRegion(f) == [f EXCEPT !.region = "NA"]

\* get_id_summoner(summonerId, API_KEY, region=region) after the sleep
RetryCall(f) == f

\* the increment made on a local of the same name: the global keeps its value
CountLookupLocal(counter) == counter

\* REQUESTS_COUNTER += 1
CountLookup(counter) == counter + 1

\* the 429 branch without the one-second margin
WaitTimeNoMargin(header) == int(header).val

\* wait_time = int(response.headers["Retry-After"]) + 1
WaitTime(header) == int(header).val + 1

\* the tuple tagged with the default region
FormatRowDefaultRegion(account, ids, r) ==
    Row(ids.puuid, account.summonerId, ids.accountId, account.summonerName, "NA")

\* (puuid, summonerId, account_id, summonerName, region)
FormatRow(account, ids, r) ==
    Row(ids.puuid, account.summonerId, ids.accountId, account.summonerName, r)

\* response_dict["entries"] answered with an empty list when the key is absent
EntriesOrEmpty(resp) == Return(resp.entries)

\* response_dict["entries"]: KeyError when the key is absent
Entries(resp) ==
    IF resp.hasEntries THEN Return(resp.entries) ELSE Raise("KeyError")

\* a table whose puuid column is no key: no stored value stands in the way
PuuidsWithoutKey(rows) == { }

\* puuid text PRIMARY KEY NOT NULL: the key values a set of rows holds
Puuids(rows) == { rows[i][1] : i \in DOMAIN rows }

\* connection.close() that writes the open transaction to the file
CloseCommitting(file, written) == [file EXCEPT !.rows = @ \o written]

\* connection.close(): the open transaction is not committed
Close(file, written) == file

\* connection.commit()
Commit(file, written) == [file EXCEPT !.rows = @ \o written]

\* DROP TABLE followed by CREATE TABLE
CreateTableReplacing(file) == [exists |-> TRUE, rows |-> << >>]

\* CREATE TABLE IF NOT EXISTS summonerID
CreateTableIfNotExists(file) == [file EXCEPT !.exists = TRUE]

(***************************************************************************)
(* The run: create_summoner_to_id_table(API_KEY, PATH_DB, region, tier).   *)
(***************************************************************************)
inputs == << region, tier, db0 >>
urlvars == << call, ret >>
httpvars == << sent, httpRequests, lookupRequests >>
loopvars == << idx, frame, depth, wait_time, waited, n429, response,
               formatted_data, REQUESTS_COUNTER >>
storevars == << db, pending, connOpen, connOpens, tableCreates, rowInserts >>

RunStart ==
    /\ pc = "start"
    /\ sent = NoRequest
    /\ httpRequests = 0
    /\ lookupRequests = 0
    /\ listing = NoResponse
    /\ accounts_data = << >>
    /\ idx = 0
    /\ frame = NoFrame
    /\ depth = 0
    /\ wait_time = 0
    /\ waited = 0
    /\ n429 = 0
    /\ response = NoAnswer
    /\ formatted_data = << >>
    /\ REQUESTS_COUNTER = 0
    /\ pending = << >>
    /\ connOpen = 0
    /\ connOpens = 0
    /\ tableCreates = 0
    /\ rowInserts = 0
    /\ error = NoError
    /\ exitStatus = Running
    /\ failedAt = ""

Init ==
    /\ region \in RunRegions
    /\ tier \in RunTiers
    /\ db0 \in Databases
    /\ db = db0
    /\ call = NoCall
    /\ ret = NoResult
    /\ RunStart

\* request_url = create_tier_url(region, tier)
CreateTierUrl ==
    /\ pc = "start"
    /\ LET request_url == create_tier_url(region, tier)
       IN  IF request_url.ok
           THEN /\ pc' = "get_listing"
                /\ UNCHANGED << error, exitStatus, failedAt >>
           ELSE Stop(request_url.err, ExitCall)
    /\ UNCHANGED << inputs, urlvars, httpvars, listing, accounts_data,
                    loopvars, storevars >>

\* requests.get(request_url), the status test and response_dict["entries"]
GetListing ==
    /\ pc = "get_listing"
    /\ sent' = Request(create_tier_url(region, tier).val)
    /\ httpRequests' = httpRequests + 1
    /\ \/ /\ Stop("ConnectionFailure", ExitCall)
          /\ UNCHANGED << listing, accounts_data >>
       \/ \E status \in FatalStatuses \cup { 429 } :
             /\ listing' = [NoResponse EXCEPT !.status = status]
             /\ Stop("UnexpectedStatus", ExitCall)
             /\ UNCHANGED accounts_data
       \/ \E hasEntries \in BOOLEAN, entries \in EntryLists :
             /\ hasEntries \/ entries = << >>
             /\ listing' = [status |-> 200, hasEntries |-> hasEntries,
                            entries |-> entries]
             /\ LET got == Entries(listing')
                IN  IF got.ok
                    THEN /\ accounts_data' = got.val
                         /\ pc' = AfterListing
                         /\ UNCHANGED << error, exitStatus, failedAt >>
                    ELSE /\ Stop("MalformedResponse", UncaughtException)
                         /\ UNCHANGED accounts_data
    /\ UNCHANGED << inputs, urlvars, lookupRequests, loopvars, storevars >>

\* connection = create_connection(PATH_DB)
CreateConnection ==
    /\ pc = "connect"
    /\ \/ /\ connOpen' = connOpen + 1
          /\ connOpens' = connOpens + 1
          /\ pc' = "create_table"
          /\ UNCHANGED << error, exitStatus, failedAt >>
       \/ /\ Stop("StorageFailure", ExitCall)
          /\ UNCHANGED << connOpen, connOpens >>
    /\ UNCHANGED << inputs, urlvars, httpvars, listing, accounts_data,
                    loopvars, db, pending, tableCreates, rowInserts >>

\* table_name = create_summonerID_table(connection)
CreateSummonerIDTable ==
    /\ pc = "create_table"
    /\ \/ /\ db' = CreateTableIfNotExists(db)
          /\ tableCreates' = tableCreates + 1
          /\ connOpen' = connOpen - 1
          /\ pc' = "loop"
          /\ UNCHANGED << error, exitStatus, failedAt >>
       \/ /\ Stop("StorageFailure", ExitCall)
          /\ UNCHANGED << db, tableCreates, connOpen >>
    /\ UNCHANGED << inputs, urlvars, httpvars, listing, accounts_data,
                    loopvars, pending, connOpens, rowInserts >>

\* for account in accounts_data: ... get_id_summoner(summonerId, API_KEY, region)
NextAccount ==
    /\ pc = "loop"
    /\ IF idx < Len(accounts_data)
       THEN /\ frame' = LoopCall(accounts_data[idx + 1], region)
            /\ depth' = 0
            /\ pc' = "lookup"
       ELSE /\ pc' = "insert"
            /\ UNCHANGED << frame, depth >>
    /\ UNCHANGED << inputs, urlvars, httpvars, listing, accounts_data, idx,
                    wait_time, waited, n429, response, formatted_data,
                    REQUESTS_COUNTER, storevars, error, exitStatus, failedAt >>

\* get_id_summoner up to its return, its exit() or its time.sleep
GetIdSummoner ==
    /\ pc = "lookup"
    /\ LET request_url == create_puuid_url(frame.summonerId, frame.region)
       IN  IF ~request_url.ok
           THEN /\ Stop(request_url.err, ExitCall)
                /\ UNCHANGED << httpvars, loopvars >>
           ELSE
             /\ sent' = [url |-> request_url.val, key |-> frame.API_KEY]
             /\ httpRequests' = httpRequests + 1
             /\ lookupRequests' = lookupRequests + 1
             /\ \/ /\ Stop("ConnectionFailure", ExitCall)
                   /\ UNCHANGED loopvars
                \/ \E hasHeader \in BOOLEAN, header \in RetryAfterHeaders :
                      /\ n429 < MaxRetries
                      /\ n429' = n429 + 1
                      /\ response' = [status |-> 429, retryAfter |-> header,
                                      hasHeader |-> hasHeader, complete |-> FALSE]
                      /\ IF ~hasHeader
                         THEN /\ Stop("MalformedResponse", UncaughtException)
                              /\ UNCHANGED wait_time
                         ELSE IF ~int(header).ok
                         THEN /\ Stop("ValueError", UncaughtException)
                              /\ UNCHANGED wait_time
                         ELSE /\ wait_time' = WaitTime(header)
                              /\ pc' = "sleep"
                              /\ UNCHANGED << error, exitStatus, failedAt >>
                      /\ UNCHANGED << idx, frame, depth, waited,
                                      formatted_data, REQUESTS_COUNTER >>
                \/ \E status \in FatalStatuses :
                      /\ response' = [NoAnswer EXCEPT !.status = status]
                      /\ Stop("UnexpectedStatus", ExitCall)
                      /\ UNCHANGED << idx, frame, depth, wait_time, waited,
                                      n429, formatted_data, REQUESTS_COUNTER >>
                \/ \E complete \in BOOLEAN :
                      /\ response' = [NoAnswer EXCEPT !.status = 200,
                                                      !.complete = complete]
                      /\ REQUESTS_COUNTER' = CountLookup(REQUESTS_COUNTER)
                      /\ IF complete
                         THEN /\ formatted_data' =
                                    Append(formatted_data,
                                           FormatRow(accounts_data[idx + 1],
                                                     ServerBody(request_url.val),
                                                     region))
                              /\ idx' = idx + 1
                              /\ pc' = "loop"
                              /\ UNCHANGED << error, exitStatus, failedAt >>
                         ELSE /\ Stop("MalformedResponse", UncaughtException)
                              /\ UNCHANGED << idx, formatted_data >>
                      /\ UNCHANGED << frame, depth, wait_time, waited, n429 >>
    /\ UNCHANGED << inputs, urlvars, listing, accounts_data, storevars >>

\* time.sleep(wait_time); return get_id_summoner(summonerId, API_KEY, region=region):
\* the call nests one frame deeper each time, RecursionError when none is left
SleepAndRetry ==
    /\ pc = "sleep"
    /\ waited' = waited + wait_time
    /\ IF depth + 1 < RecursionLimit
       THEN /\ frame' = RetryCall(frame)
            /\ depth' = depth + 1
            /\ pc' = "lookup"
            /\ UNCHANGED << error, exitStatus, failedAt >>
       ELSE /\ Stop("RecursionError", UncaughtException)
            /\ UNCHANGED << frame, depth >>
    /\ UNCHANGED << inputs, urlvars, httpvars, listing, accounts_data, idx,
                    wait_time, n429, response, formatted_data,
                    REQUESTS_COUNTER, storevars >>

\* insert_into_table: sqlite3.connect and the VALUES(?, ...) string
InsertConnect ==
    /\ pc = "insert"
    /\ \/ /\ connOpen' = connOpen + 1
          /\ connOpens' = connOpens + 1
          /\ IF formatted_data = << >>
             THEN Stop("IndexError", UncaughtException)
             ELSE /\ pc' = "executemany"
                  /\ UNCHANGED << error, exitStatus, failedAt >>
       \/ /\ Stop("StorageFailure", ExitCall)
          /\ UNCHANGED << connOpen, connOpens >>
    /\ UNCHANGED << inputs, urlvars, httpvars, listing, accounts_data,
                    loopvars, db, pending, tableCreates, rowInserts >>

\* cursor.executemany: one row of data per step; sqlite3.Error closes and exits
ExecuteMany ==
    /\ pc = "executemany"
    /\ IF Len(pending) < Len(formatted_data)
       THEN LET row == formatted_data[Len(pending) + 1]
                placeholders == Len(formatted_data[1])
                accepted == /\ db.exists
                            /\ placeholders = NumColumns
                            /\ Len(row) = placeholders
                            /\ row[1] \notin Puuids(db.rows) \cup Puuids(pending)
            IN  \/ /\ accepted
                   /\ pending' = Append(pending, row)
                   /\ rowInserts' = rowInserts + 1
                   /\ UNCHANGED << db, connOpen, pc, error, exitStatus, failedAt >>
                \/ /\ db' = Close(db, pending)
                   /\ pending' = << >>
                   /\ connOpen' = connOpen - 1
                   /\ Stop("StorageFailure", ExitCall)
                   /\ UNCHANGED rowInserts
       ELSE /\ pc' = "commit"
            /\ UNCHANGED << db, pending, connOpen, rowInserts, error, exitStatus, failedAt >>
    /\ UNCHANGED << inputs, urlvars, httpvars, listing, accounts_data,
                    loopvars, connOpens, tableCreates >>

\* connection.commit(); connection.close(); the run returns and main ends
CommitAndClose ==
    /\ pc = "commit"
    /\ db' = Close(Commit(db, pending), << >>)
    /\ pending' = << >>
    /\ connOpen' = connOpen - 1
    /\ pc' = "done"
    /\ exitStatus' = << 0 >>
    /\ UNCHANGED << inputs, urlvars, httpvars, listing, accounts_data,
                    loopvars, connOpens, tableCreates, rowInserts, error,
                    failedAt >>

Next ==
    \/ CreateTierUrl
    \/ GetListing
    \/ CreateConnection
    \/ CreateSummonerIDTable
    \/ NextAccount
    \/ GetIdSummoner
    \/ SleepAndRetry
    \/ InsertConnect
    \/ ExecuteMany
    \/ CommitAndClose

Spec == Init /\ [][Next]_vars

(***************************************************************************)
(* The URL builders on their own: SpecUrl evaluates one call per           *)
(* behaviour, its arguments drawn from the sets below.                     *)
(***************************************************************************)
UrlRegions ==
    { "NA", "EUW", "EUN", "BR", "JP", "KR", "LA", "OC", "TR", "RU", "PH", "SG",
      "TH", "TW", "VN", "", "na", "EU", "NA1", "VN2", "LAN", "ME" }

UrlTiers ==
    { << "i", "r", "o", "n" >>,
      << "b", "r", "o", "n", "z", "e" >>,
      << "s", "i", "l", "v", "e", "r" >>,
      << "g", "o", "l", "d" >>,
      << "p", "l", "a", "t", "i", "n", "u", "m" >>,
      << "d", "i", "a", "m", "o", "n", "d" >>,
      << "m", "a", "s", "t", "e", "r" >>,
      << "g", "r", "a", "n", "d", "m", "a", "s", "t", "e", "r" >>,
      << "c", "h", "a", "l", "l", "e", "n", "g", "e", "r" >>,
      << "M", "a", "s", "t", "e", "r" >>,
      << "M", "A", "S", "T", "E", "R" >>,
      << "G", "r", "a", "n", "d", "M", "a", "s", "t", "e", "r" >>,
      << "C", "h", "a", "l", "l", "e", "n", "g", "e", "r" >>,
      << "c", "H", "A", "L", "L", "E", "N", "G", "E", "R" >>,
      << "G", "o", "l", "d" >>,
      << "I", "R", "O", "N" >>,
      << "w", "o", "o", "d" >>,
      << "m", "a", "s", "t", "e", "r", "s" >>,
      <<  >> }

UrlDivisions == { "", "1", "2", "3", "4", "5", "0", "I", "IV" }
UrlPages == { "1", "3" }
UrlSummonerIds == DOMAIN Summoner

Calls ==
    { [NoCall EXCEPT !.fn = "region_to_url", !.region = r] : r \in UrlRegions }
    \cup
    { [NoCall EXCEPT !.fn = "tier_to_url", !.tier = t, !.division = d, !.page = p] :
        t \in UrlTiers, d \in UrlDivisions, p \in UrlPages }
    \cup
    { [NoCall EXCEPT !.fn = "create_tier_url", !.region = r, !.tier = t] :
        r \in { "NA", "KR", "EU" }, t \in UrlTiers }
    \cup
    { [NoCall EXCEPT !.fn = "create_puuid_url", !.region = r, !.summonerId = id] :
        r \in { "NA", "KR", "EU" }, id \in UrlSummonerIds }

InitUrl ==
    /\ region = "NA"
    /\ tier = << "M", "a", "s", "t", "e", "r" >>
    /\ db0 = [exists |-> FALSE, rows |-> << >>]
    /\ db = db0
    /\ call \in Calls
    /\ ret = NoResult
    /\ pc = "call"
    /\ sent = NoRequest
    /\ httpRequests = 0
    /\ lookupRequests = 0
    /\ listing = NoResponse
    /\ accounts_data = << >>
    /\ idx = 0
    /\ frame = NoFrame
    /\ depth = 0
    /\ wait_time = 0
    /\ waited = 0
    /\ n429 = 0
    /\ response = NoAnswer
    /\ formatted_data = << >>
    /\ REQUESTS_COUNTER = 0
    /\ pending = << >>
    /\ connOpen = 0
    /\ connOpens = 0
    /\ tableCreates = 0
    /\ rowInserts = 0
    /\ error = NoError
    /\ exitStatus = Running
    /\ failedAt = ""

Returned(result) ==
    /\ pc = "call"
    /\ pc' = "returned"
    /\ ret' = result
    /\ UNCHANGED << inputs, call, httpvars, listing, accounts_data, loopvars,
                    storevars, error, exitStatus, failedAt >>

CallRegionToUrl ==
    /\ call.fn = "region_to_url"
    /\ Returned(region_to_url(call.region))

CallTierToUrl ==
    /\ call.fn = "tier_to_url"
    /\ Returned(tier_to_url(call.tier, call.division, call.page))

CallCreateTierUrl ==
    /\ call.fn = "create_tier_url"
    /\ Returned(create_tier_url(call.region, call.tier))

CallCreatePuuidUrl ==
    /\ call.fn = "create_puuid_url"
    /\ Returned(create_puuid_url(call.summonerId, call.region))

NextUrl ==
    \/ CallRegionToUrl
    \/ CallTierToUrl
    \/ CallCreateTierUrl
    \/ CallCreatePuuidUrl

SpecUrl == InitUrl /\ [][NextUrl]_vars

(***************************************************************************)
(* Properties of the run (specification Spec).                             *)
(***************************************************************************)
\* The PlayerRecord the i-th listing entry must yield
ExpectedRecord(i) ==
    << Summoner[accounts_data[i].summonerId].puuid,
       accounts_data[i].summonerId,
       Summoner[accounts_data[i].summonerId].accountId,
       accounts_data[i].summonerName,
       region >>

AllResolved ==
    /\ Len(formatted_data) = Len(accounts_data)
    /\ \A i \in 1..Len(accounts_data) : formatted_data[i] = ExpectedRecord(i)

\* C1: when the listing answered 200 with N entries and every lookup answered
\* 200, the loop has built exactly N records, the i-th from the i-th entry and
\* its own lookup result, each tagged with the run's region, and exactly N + 1
\* HTTP requests (1 listing, N lookups) were made before the bulk insert, of
\* which no row has been written yet.
C1_RecordsAndRequests ==
    /\ pc \in { "loop", "lookup", "sleep" } => Len(formatted_data) = idx
    /\ (pc \in { "insert", "executemany", "commit", "done" } /\ n429 = 0) =>
          /\ AllResolved
          /\ lookupRequests = Len(accounts_data)
          /\ httpRequests = Len(accounts_data) + 1
    /\ pc = "insert" => rowInserts = 0 /\ db.rows = db0.rows

C1_Witness ==
    /\ pc = "insert"
    /\ n429 = 0
    /\ region = "KR"
    /\ Len(accounts_data) = 3
    /\ accounts_data[1].summonerId = "s2"
    /\ accounts_data[2].summonerId = "s1"
    /\ formatted_data[1] = << "p2", "s2", "a2", "Bob", "KR" >>
    /\ formatted_data[2] = << "p1", "s1", "a1", "Ann", "KR" >>
    /\ httpRequests = 4
    /\ sent.url = "https://kr.api.riotgames.com/lol/summoner/v4/summoners/"
                   \o accounts_data[3].summonerId

\* C2: a 200 listing response without `entries` stops the run with
\* MalformedResponse before any lookup request, any storage connection and
\* any row insert.
C2_MissingEntries ==
    (listing.status = 200 /\ ~listing.hasEntries) =>
        /\ pc = "failed"
        /\ error = "MalformedResponse"
        /\ lookupRequests = 0
        /\ httpRequests = 1
        /\ rowInserts = 0
        /\ connOpens = 0
        /\ db = db0

C2_Witness ==
    /\ listing.status = 200
    /\ ~listing.hasEntries
    /\ pc = "failed"
    /\ failedAt = "get_listing"

\* The number a Retry-After header of decimal digits spells
RetryAfterSeconds ==
    << "0" >> :> 0 @@ << "2" >> :> 2 @@ << "1", "0" >> :> 10

\* C3: a lookup answered 429 with Retry-After = r sleeps r + 1 seconds and
\* then re-issues the identical request (same URL, hence same summonerId and
\* region, and same API key); the retry neither skips nor repeats an entry, so
\* a run that completes has resolved every entry exactly once.
C3_SleepThenIdenticalRetry ==
    /\ [](pc = "done" => AllResolved /\ REQUESTS_COUNTER = Len(accounts_data))
    /\ [][ /\ pc = "sleep" =>
                /\ response.status = 429
                /\ waited' = waited + RetryAfterSeconds[response.retryAfter] + 1
                /\ pc' = "lookup"
                /\ idx' = idx
                /\ formatted_data' = formatted_data
                /\ httpRequests' = httpRequests
           /\ (pc = "lookup" /\ depth > 0) =>
                /\ httpRequests' = httpRequests + 1
                /\ sent' = sent
                /\ idx' \in { idx, idx + 1 }
         ]_vars

C3_Witness ==
    /\ pc = "done"
    /\ n429 = 1
    /\ waited = 3
    /\ region = "KR"
    /\ Len(formatted_data) = 2
    /\ httpRequests = 4

\* C4: a 429 answer to the listing request is recoverable: it never leads to
\* Failed.
C4_ListingRateLimitRecoverable ==
    listing.status = 429 => pc # "failed"

FailedBeforeInsert ==
    /\ pc = "failed"
    /\ failedAt \in { "start", "get_listing", "connect", "create_table",
                      "lookup", "sleep", "insert" }

\* C5: a run that fails before the bulk insert leaves the rows of summonerID
\* exactly as they were before the run, has written no row, and issues no
\* request after the failing one; the records resolved so far exist only in
\* formatted_data.
C5_NothingPersistedBeforeInsert ==
    /\ [](FailedBeforeInsert =>
            /\ db.rows = db0.rows
            /\ pending = << >>
            /\ rowInserts = 0)
    /\ [][pc = "failed" => httpRequests' = httpRequests /\ db' = db]_vars

C5_Witness ==
    /\ pc = "failed"
    /\ failedAt = "lookup"
    /\ error = "UnexpectedStatus"
    /\ Len(formatted_data) = 1
    /\ db0.rows # << >>
    /\ db.rows = db0.rows

KnownRegions ==
    { "NA", "EUW", "EUN", "BR", "JP", "KR", "LA", "OC", "TR", "RU", "PH", "SG",
      "TH", "TW", "VN" }

ValidRunTiers == { << "M", "a", "s", "t", "e", "r" >>, << "g", "o", "l", "d" >> }

\* C6: a run started with an unknown region or an unknown tier stops before
\* any HTTP request and any storage operation (no connection opened, no table
\* created, no row inserted).
C6_ValidationBeforeSideEffects ==
    (region \notin KnownRegions \/ tier \notin ValidRunTiers) =>
        /\ pc \in { "start", "failed" }
        /\ pc = "failed" => error \in { InvalidRegion, InvalidTier }
        /\ httpRequests = 0
        /\ sent = NoRequest
        /\ connOpens = 0
        /\ tableCreates = 0
        /\ rowInserts = 0
        /\ db = db0

C6_Witness ==
    /\ region = "KR"
    /\ tier = << "w", "o", "o", "d" >>
    /\ pc = "failed"
    /\ error = InvalidTier
    /\ httpRequests = 0

\* C8: every fatal condition ends the process with a non-zero exit status,
\* and exit status zero occurs only when the run reached Done.
C8_FatalExitsNonZero ==
    /\ pc = "failed" => exitStatus # << 0 >>
    /\ exitStatus = << 0 >> => pc = "done"

FailedDuringInsert ==
    /\ pc = "failed"
    /\ failedAt = "executemany"

\* C9 as claimed: when executemany fails at the k-th row, the rows of the
\* batch inserted before it are in the table after the run has terminated.
C9_PrefixRemains ==
    FailedDuringInsert =>
        \A j \in 1..rowInserts :
            \E i \in DOMAIN db.rows : db.rows[i] = formatted_data[j]

\* C9 as amended: when executemany fails at the k-th row the connection is
\* closed without a commit, so none of the rows of the batch inserted before
\* it remains: after the run has terminated the table holds exactly the rows
\* it held before the run.
C9_PrefixRolledBack ==
    FailedDuringInsert =>
        /\ db.rows = db0.rows
        /\ pending = << >>
        /\ connOpen = 0

C9_Witness ==
    /\ FailedDuringInsert
    /\ rowInserts = 1
    /\ Len(formatted_data) = 2
    /\ formatted_data[2][1] = "p1"
    /\ db0.rows # << >>

(***************************************************************************)
(* Properties of the URL builders (specification SpecUrl).                 *)
(***************************************************************************)
\* The spellings of the top tiers among UrlTiers, with the name str.lower
\* gives each
TopTierSpellings ==
    << "m", "a", "s", "t", "e", "r" >> :> "master" @@
    << "M", "a", "s", "t", "e", "r" >> :> "master" @@
    << "M", "A", "S", "T", "E", "R" >> :> "master" @@
    << "g", "r", "a", "n", "d", "m", "a", "s", "t", "e", "r" >> :> "grandmaster" @@
    << "G", "r", "a", "n", "d", "M", "a", "s", "t", "e", "r" >> :> "grandmaster" @@
    << "c", "h", "a", "l", "l", "e", "n", "g", "e", "r" >> :> "challenger" @@
    << "C", "h", "a", "l", "l", "e", "n", "g", "e", "r" >> :> "challenger" @@
    << "c", "H", "A", "L", "L", "E", "N", "G", "E", "R" >> :> "challenger"

NonEmptyDivisions == UrlDivisions \ { "" }

TopTierCall ==
    /\ pc = "returned"
    /\ call.fn = "tier_to_url"
    /\ call.tier \in DOMAIN TopTierSpellings

TopTierPath(t) ==
    "/lol/league/v4/" \o TopTierSpellings[t] \o "leagues/by-queue/RANKED_SOLO_5x5"

\* C7 as claimed: a top tier, in any letter case, with any non-empty division
\* fails with TierDivisionConflict; with the empty division tier_to_url
\* returns the tier's fixed leaderboard path.
C7_AnyDivisionConflicts ==
    TopTierCall =>
        IF call.division # ""
        THEN ret = Raise(TierDivisionConflict(TopTierSpellings[call.tier]))
        ELSE ret = Return(TopTierPath(call.tier))

\* C7 as amended: a top tier, in any letter case, with a division code of the
\* division table ("1", "2", "3", "4") fails with TierDivisionConflict; with
\* any other non-empty division it fails with InvalidDivision, the division
\* being validated first; with the empty division tier_to_url returns the
\* tier's fixed leaderboard path.
C7_KnownDivisionConflicts ==
    TopTierCall =>
        IF call.division \in { "1", "2", "3", "4" }
        THEN ret = Raise(TierDivisionConflict(TopTierSpellings[call.tier]))
        ELSE IF call.division # ""
        THEN ret = Raise(InvalidDivision)
        ELSE ret = Return(TopTierPath(call.tier))

C7_Witness ==
    /\ TopTierCall
    /\ call.tier = << "G", "r", "a", "n", "d", "M", "a", "s", "t", "e", "r" >>
    /\ call.division = "3"
    /\ ret = Raise("You cannot have tier grandmaster with a division")

AcceptedRegions == { r \in UrlRegions : region_to_url(r).ok }

RegionCall ==
    /\ pc = "returned"
    /\ call.fn = "region_to_url"

\* C10 as claimed: region_to_url returns a non-empty base URL for the
\* enumerated codes and fails with InvalidRegion for every other string, and
\* the accepted codes are 14.
C10_FourteenRegions ==
    RegionCall =>
        /\ ret.ok => ret.val # "" /\ call.region \in KnownRegions
        /\ ~ret.ok => ret = Raise(InvalidRegion)
        /\ Cardinality(AcceptedRegions) = 14

\* C10 as amended: region_to_url returns a non-empty base URL for exactly the
\* 15 region codes of region_dict (NA, EUW, EUN, BR, JP, KR, LA, OC, TR, RU,
\* PH, SG, TH, TW, VN) and fails with InvalidRegion for every other string;
\* the set of accepted region codes has 15 elements.
C10_FifteenRegions ==
    RegionCall =>
        /\ call.region \in KnownRegions => ret.ok /\ ret.val # ""
        /\ call.region \notin KnownRegions => ret = Raise(InvalidRegion)
        /\ AcceptedRegions = KnownRegions
        /\ Cardinality(AcceptedRegions) = 15

C10_Witness ==
    /\ RegionCall
    /\ call.region = "VN"
    /\ ret = Return("https://vn2.api.riotgames.com")

C10_WitnessRejected ==
    /\ RegionCall
    /\ call.region = "na"
    /\ ret = Raise(InvalidRegion)

GoldSpellings == { << "g", "o", "l", "d" >>, << "G", "o", "l", "d" >> }

ChallengerSpellings ==
    { << "c", "h", "a", "l", "l", "e", "n", "g", "e", "r" >>,
      << "C", "h", "a", "l", "l", "e", "n", "g", "e", "r" >>,
      << "c", "H", "A", "L", "L", "E", "N", "G", "E", "R" >> }

GoldPageUrl ==
    "https://na1.api.riotgames.com/lol/league/v4/entries/RANKED_SOLO_5x5/gold/II?page=3"

ChallengerUrl ==
    "https://kr.api.riotgames.com/lol/league/v4/challengerleagues/by-queue/RANKED_SOLO_5x5"

\* The base URL of region r followed by the path tier_to_url returned
ComposedWith(r) == region_to_url(r).val \o ret.val

GoldDivisionCall ==
    /\ pc = "returned"
    /\ call.fn = "tier_to_url"
    /\ call.tier \in GoldSpellings
    /\ call.division = "2"
    /\ call.page = "3"

CreateTierUrlCall ==
    /\ pc = "returned"
    /\ call.fn = "create_tier_url"

\* C11 as claimed: region base URL + tier path gives the two URLs exactly, and
\* create_tier_url, the builder the run uses, can produce both of them.
C11_RunBuilderProducesBoth ==
    /\ GoldDivisionCall => ComposedWith("NA") = GoldPageUrl
    /\ CreateTierUrlCall =>
          /\ \E r \in UrlRegions, t \in UrlTiers :
                create_tier_url(r, t) = Return(ChallengerUrl)
          /\ \E r \in UrlRegions, t \in UrlTiers :
                create_tier_url(r, t) = Return(GoldPageUrl)

\* C11 as amended: the region's base URL followed by tier_to_url(tier,
\* division, page) gives the gold/II?page=3 URL exactly, with the tier
\* lower-cased and the division code mapped to its Roman numeral, and
\* create_tier_url gives the KR challenger URL exactly; but create_tier_url
\* takes only region and tier and calls tier_to_url with division "" and page
\* "1", so for NA and gold it yields .../gold/?page=1 and for no arguments the
\* gold/II?page=3 URL.
C11_ComposedUrls ==
    /\ GoldDivisionCall =>
          /\ ret = Return("/lol/league/v4/entries/RANKED_SOLO_5x5/gold/II?page=3")
          /\ ComposedWith("NA") = GoldPageUrl
    /\ CreateTierUrlCall =>
          /\ ret # Return(GoldPageUrl)
          /\ (call.region = "KR" /\ call.tier \in ChallengerSpellings) =>
                ret = Return(ChallengerUrl)
          /\ (call.region = "NA" /\ call.tier \in GoldSpellings) =>
                ret = Return("https://na1.api.riotgames.com/lol/league/v4/entries/RANKED_SOLO_5x5/gold/?page=1")

C11_Witness ==
    /\ GoldDivisionCall
    /\ call.tier = << "G", "o", "l", "d" >>
    /\ ComposedWith("NA") = GoldPageUrl

C11_WitnessRunBuilder ==
    /\ CreateTierUrlCall
    /\ call.region = "KR"
    /\ call.tier = << "C", "h", "a", "l", "l", "e", "n", "g", "e", "r" >>
    /\ ret = Return(ChallengerUrl)

(***************************************************************************)
(* Order of the run's steps (specification Spec).                          *)
(***************************************************************************)
Resolving ==
    \/ pc \in { "loop", "lookup", "sleep" }
    \/ pc = "failed" /\ failedAt \in { "lookup", "sleep" }

StepOrder ==
    { << "start", "get_listing" >>, << "get_listing", "connect" >>,
      << "connect", "create_table" >>, << "create_table", "loop" >>,
      << "loop", "lookup" >>, << "lookup", "sleep" >>, << "sleep", "lookup" >>,
      << "lookup", "loop" >>, << "loop", "insert" >>,
      << "insert", "executemany" >>, << "executemany", "commit" >>,
      << "commit", "done" >> }

\* C12 as claimed: the create-if-absent of the table belongs to the Persisted
\* step, so while the entries are being resolved, and in a run that failed
\* while resolving them, storage has not been touched: no connection was
\* opened and no table was created.
C12_StorageUntouchedWhileResolving ==
    Resolving =>
        /\ connOpens = 0
        /\ tableCreates = 0
        /\ db = db0

\* C12 as amended: a run visits Init, ListingFetched, then opens a storage
\* connection and creates the summonerID table if absent (and closes the
\* connection), then ResolvingEntries, Persisted (the bulk insert) and Done.
\* The connection open and the table creation happen before the first lookup,
\* so a run that fails during ResolvingEntries has opened and closed one
\* connection and created the table; only the row inserts wait until every
\* ladder entry has been resolved.
C12_TableCreatedBeforeResolving ==
    /\ [](Resolving =>
            /\ connOpens = 1
            /\ connOpen = 0
            /\ tableCreates = 1
            /\ db.exists
            /\ rowInserts = 0
            /\ db.rows = db0.rows)
    /\ [](rowInserts > 0 => idx = Len(accounts_data))
    /\ [][pc' # pc => (pc' = "failed" \/ << pc, pc' >> \in StepOrder)]_vars

C12_Witness ==
    /\ pc = "failed"
    /\ failedAt = "lookup"
    /\ idx = 1
    /\ ~db0.exists
    /\ db.exists
    /\ tableCreates = 1
    /\ connOpens = 1

(***************************************************************************)
(* The retry on HTTP 429 (specification Spec).                             *)
(***************************************************************************)
\* C13: the 429 retry of a lookup has no cap: however many times the server
\* has answered 429, after the sleep the run is back at the lookup of the
\* same entry, neither Done nor Failed.
C13_RetryWithoutCap ==
    [][pc = "sleep" =>
          /\ pc' = "lookup"
          /\ idx' = idx
          /\ frame' = frame]_vars

(***************************************************************************)
(* The request counter (specification Spec).                               *)
(***************************************************************************)
\* This step is a lookup request receiving a 200 answer
LookupAnswered200 ==
    /\ pc = "lookup"
    /\ httpRequests' = httpRequests + 1
    /\ error' # "ConnectionFailure"
    /\ response'.status = 200

\* The lookups answered 200 so far: one per record built, and the one whose
\* body lacked puuid or accountId, if the run stopped on it
Lookups200 ==
    Len(formatted_data)
    + (IF /\ pc = "failed"
          /\ failedAt = "lookup"
          /\ error = "MalformedResponse"
          /\ response.status = 200
       THEN 1 ELSE 0)

InitRuns ==
    /\ Init
    /\ region = "NA"
    /\ tier = << "M", "a", "s", "t", "e", "r" >>

Rerun ==
    /\ pc \in { "done", "failed" }
    /\ UNCHANGED << region, tier >>
    /\ db' = db
    /\ db0' = db
    /\ pc' = "start"
    /\ sent' = NoRequest
    /\ httpRequests' = 0
    /\ lookupRequests' = 0
    /\ listing' = NoResponse
    /\ accounts_data' = << >>
    /\ idx' = 0
    /\ frame' = NoFrame
    /\ depth' = 0
    /\ wait_time' = 0
    /\ waited' = 0
    /\ n429' = 0
    /\ response' = NoAnswer
    /\ formatted_data' = << >>
    /\ REQUESTS_COUNTER' = 0
    /\ pending' = << >>
    /\ connOpen' = 0
    /\ connOpens' = 0
    /\ tableCreates' = 0
    /\ rowInserts' = 0
    /\ error' = NoError
    /\ exitStatus' = Running
    /\ failedAt' = ""
    /\ UNCHANGED urlvars

NextRuns ==
    \/ Next
    \/ Rerun

SpecRuns == InitRuns /\ [][NextRuns]_vars

KeyOf(row) == row[1]

UniqueKeys(rows) ==
    \A i, j \in DOMAIN rows : KeyOf(rows[i]) = KeyOf(rows[j]) => i = j

IsPrefix(s, t) ==
    /\ Len(s) <= Len(t)
    /\ \A i \in DOMAIN s : t[i] = s[i]

\* The batch holds a puuid the table already stores, or the same puuid twice
BatchConflicts ==
    \/ ~UniqueKeys(formatted_data)
    \/ \E i \in DOMAIN formatted_data, j \in DOMAIN db0.rows :
          KeyOf(formatted_data[i]) = KeyOf(db0.rows[j])

\* C15: after any sequence of runs against the same database the summonerID
\* table never holds two rows with the same puuid, and no step changes or
\* removes a stored row (table creation on an existing table included: the
\* rows stay as a prefix of the table); a run whose batch holds a puuid that
\* is already stored, or the same puuid twice, does not reach the commit: it
\* fails at the insert step, and a run that is Done has appended its batch.
C15_KeysUniqueRowsKept ==
    /\ [](UniqueKeys(db.rows))
    /\ [](pc \in { "commit", "done" } => ~BatchConflicts)
    /\ [](pc = "done" => db.rows = db0.rows \o formatted_data)
    /\ []((pc = "failed" /\ failedAt = "executemany") => db.rows = db0.rows)
    /\ [][ /\ db.exists => db'.exists
           /\ IsPrefix(db.rows, db'.rows) ]_vars

\* A second run over the same ladder: its whole batch is stored already
C15_Witness ==
    /\ pc = "failed"
    /\ failedAt = "executemany"
    /\ Len(formatted_data) = 2
    /\ formatted_data[1][1] = "p2"
    /\ db0.rows = formatted_data
    /\ db.rows = db0.rows

(***************************************************************************)
(* The storage connection and the empty batch (specification Spec).        *)
(***************************************************************************)
\* C16: no storage connection is open while a lookup request or a rate-limit
\* sleep is in progress, at most one connection is open at any time, and
\* every connection that was opened has been closed when the run has
\* terminated, in Done or in Failed.
C16_ConnectionsScopedAndClosed ==
    /\ pc \in { "lookup", "sleep" } => connOpen = 0
    /\ connOpen <= 1
    /\ pc \in { "done", "failed" } => connOpen = 0

EmptyListing ==
    /\ listing.status = 200
    /\ listing.hasEntries
    /\ listing.entries = << >>

\* C17: after a 200 listing response whose `entries` list is present but
\* empty, the run issues no lookup request and inserts no row, and
\* insert_into_table accepts the empty row list: once its connection is open
\* the run does not fail, and it reaches Done without any error.
C17_EmptyListingReachesDone ==
    EmptyListing =>
        /\ lookupRequests = 0
        /\ rowInserts = 0
        /\ pc = "failed" => error = "StorageFailure"
        /\ connOpens = 2 => pc \in { "executemany", "commit", "done" }

====
